---- MODULE Spec2Model ----
(***************************************************************************)
(* Model of the backend-container front-end server:                        *)
(*   - the request router            (server.ts)                           *)
(*   - the reverse proxy by port     (reverseProxy.ts)                     *)
(*   - the Jupyter process supervisor (jupyter.ts)                         *)
(*   - the socket.io <-> pty session (socketio_to_pty.ts)                  *)
(* Strings are sequences of one-character strings, so that indexOf, the    *)
(* /_proxy/ regular expression and String.replace are computed character   *)
(* by character as the JavaScript runtime computes them.                   *)
(***************************************************************************)
EXTENDS Integers, Sequences, FiniteSets, TLC

VARIABLES
    socketIoHandlers,  \* server.ts: const socketIoHandlers: SocketIoToPty[] (their paths)
    localPort,         \* request.socket.localPort = settings.serverPort
    jupyterServer,     \* jupyter.ts: let jupyterServer ("null" or "server")
    probe,             \* the promise of tcp.waitUntilUsedOnHost: pending/resolved/rejected
    childProcess,      \* server.childProcess: running/exited
    killCalls,         \* number of jupyterProcess.kill('SIGHUP') invocations
    closeResult,       \* outcome of the last jupyter.close(): none/returned/raised
    log,               \* last message written at error level by the supervisor
    requestUrl,        \* request.url of the requests the http server receives
    last,              \* the last request or upgrade handled by the http server
    unackedCount,      \* Session.unackedCount
    emitted,           \* number of output chunks the pty has produced
    ptyPaused,         \* flow state of the pty after pause()/resume()
    ptyLast,           \* the last pty event handled and the calls it made
    connected,         \* the socket.io socket of the Session is connected
    ptyProcess,        \* the terminal process of the Session: running/exited
    ptyKills,          \* number of pty.kill() invocations
    ptyKilledDead,     \* pty.kill() was invoked on a terminal process that had exited
    process,           \* the node process: running/exited
    faultable,         \* the callees of the dispatch that can raise an exception
    response,          \* the backend's response to the last forwarded request
                       \* and the response the client got
    kConnected,        \* the socket.io socket of the kernel Session is connected
    kUrl,              \* session.url: 0 for '', n for the url of the n-th socket, -1 malformed
    kWebSocket,        \* session.webSocket: 0 for null, or the number of a WebSocket
    wsState,           \* the WebSockets created: none/connecting/open/closing/closed
    wsCount,           \* number of WebSockets created
    kLast,             \* the last event of the kernel Session and what its listener did
    relayCap,          \* how many messages per direction the histories below record
    fromUpstream,      \* the messages the WebSockets of the Session delivered, in order
    toClient,          \* the 'data' events emitted to the client for them, in order
    fromClient,        \* the client 'data' messages that found a WebSocket stored, in order
    toUpstream         \* the frames handed to webSocket.send for them, in order

serverVars == <<socketIoHandlers, localPort, jupyterServer, probe, childProcess,
                killCalls, closeResult, log, requestUrl, last>>
ptyVars == <<unackedCount, emitted, ptyPaused, ptyLast, connected, ptyProcess,
             ptyKills, ptyKilledDead>>
httpVars == <<faultable, response>>
kernelVars == <<kConnected, kUrl, kWebSocket, wsState, wsCount, kLast>>
relayVars == <<relayCap, fromUpstream, toClient, fromClient, toUpstream>>
vars == <<socketIoHandlers, localPort, jupyterServer, probe, childProcess,
          killCalls, closeResult, log, requestUrl, last,
          unackedCount, emitted, ptyPaused, ptyLast, connected, ptyProcess,
          ptyKills, ptyKilledDead, process, faultable, response,
          kConnected, kUrl, kWebSocket, wsState, wsCount, kLast,
          relayCap, fromUpstream, toClient, fromClient, toUpstream>>

---------------------------------------------------------------------------
(* Bounds of the model *)

\* longest digit string put after /_proxy/ in a request url
MaxDigits == 2
\* how many output chunks one pty produces
MaxChunks == 24
\* how many WebSockets one kernel session creates
MaxSockets == 3
\* how many relayed messages per direction are recorded
MaxMsgs == 2

---------------------------------------------------------------------------
(* Program constants *)

UNACKED_HIGH_WATER == 20
UNACKED_LOW_WATER == 2

\* '/tty', the path of the terminal bridge registered by run()
TtyPath == <<"/", "t", "t", "y">>
\* '/socket.io/'
SocketIoPrefix == <<"/", "s", "o", "c", "k", "e", "t", ".", "i", "o", "/">>
\* the literal head of the regular expression '\/_proxy\/([0-9]+)($|\/)'
ProxyMarker == <<"/", "_", "p", "r", "o", "x", "y", "/">>
\* [0-9]
DigitChars == {"0", "1", "2", "3", "4", "5", "6", "7", "8", "9"}
\* the path prefixes handleRequest hands to Jupyter
JupyterPrefixes ==
    { <<"/", "a", "p", "i">>,
      <<"/", "n", "b", "e", "x", "t", "e", "n", "s", "i", "o", "n", "s">>,
      <<"/", "f", "i", "l", "e", "s">>,
      <<"/", "s", "t", "a", "t", "i", "c">> }

---------------------------------------------------------------------------
(* String primitives of the JavaScript runtime used by the code *)

\* t occurs in s at the 1-based position i
StartsWithAt(s, t, i) ==
    /\ i >= 1
    /\ i + Len(t) - 1 <= Len(s)
    /\ \A k \in 1..Len(t) : s[i + k - 1] = t[k]

\* String.prototype.indexOf: 0-based position of the first occurrence, or -1
indexOf(s, t) ==
    LET hits == { i \in 1..(Len(s) + 1) : StartsWithAt(s, t, i) }
    IN  IF hits = {} THEN -1
        ELSE (CHOOSE i \in hits : \A j \in hits : i <= j) - 1

\* length of the longest run of [0-9] that starts at position i
RECURSIVE DigitRun(_, _)
DigitRun(s, i) ==
    IF i <= Len(s) /\ s[i] \in DigitChars THEN 1 + DigitRun(s, i + 1) ELSE 0

DigitValue(c) ==
    CASE c = "0" -> 0 [] c = "1" -> 1 [] c = "2" -> 2 [] c = "3" -> 3
      [] c = "4" -> 4 [] c = "5" -> 5 [] c = "6" -> 6 [] c = "7" -> 7
      [] c = "8" -> 8 [] c = "9" -> 9

\* Number(match[1]) of a string of decimal digits
RECURSIVE Number(_)
Number(d) ==
    IF d = <<>> THEN 0
    ELSE 10 * Number(SubSeq(d, 1, Len(d) - 1)) + DigitValue(d[Len(d)])

\* the regular expression matches s at position i: the marker, the greedy
\* digit run of at least one digit, then the end of the input or a '/'
RegexMatchesAt(s, i) ==
    /\ StartsWithAt(s, ProxyMarker, i)
    /\ LET run == DigitRun(s, i + Len(ProxyMarker))
           after == i + Len(ProxyMarker) + run
       IN  /\ run >= 1
           /\ (after > Len(s) \/ s[after] = "/")

\* regex.exec(s): the leftmost match, with its capture group 1 and its length
regexExec(s) ==
    LET hits == { i \in 1..Len(s) : RegexMatchesAt(s, i) }
    IN  IF hits = {} THEN [found |-> FALSE, index |-> 0, digits |-> <<>>, length |-> 0]
        ELSE LET i == CHOOSE h \in hits : \A j \in hits : h <= j
                 run == DigitRun(s, i + Len(ProxyMarker))
                 after == i + Len(ProxyMarker) + run
             IN  [found |-> TRUE,
                  index |-> i,
                  digits |-> SubSeq(s, i + Len(ProxyMarker), after - 1),
                  length |-> Len(ProxyMarker) + run
                               + (IF after <= Len(s) THEN 1 ELSE 0)]

\* s.replace(regex, ''): the whole leftmost match is cut out of s
regexReplace(s) ==
    LET m == regexExec(s)
    IN  IF m.found
        THEN SubSeq(s, 1, m.index - 1) \o SubSeq(s, m.index + m.length, Len(s))
        ELSE s

\* url.parse(u).pathname for the urls of the model: what precedes the '?'
pathname(u) ==
    LET q == indexOf(u, <<"?">>)
    IN  IF q = -1 THEN u ELSE SubSeq(u, 1, q)

---------------------------------------------------------------------------
(* sockets.ts, socketio_to_pty.ts, reverseProxy.ts: path classification *)

isSocketIoPath(path) == indexOf(path, SocketIoPrefix) = 0

isPathProxied(bridgePath, path) == indexOf(path, bridgePath \o <<"/">>) = 0

getRequestPort(path) ==
    IF path # <<>>
    THEN LET match == regexExec(path)
         IN  IF match.found THEN Number(match.digits) ELSE 0
    ELSE 0

---------------------------------------------------------------------------
(* The outcome of handling one request: the functions called in order, the *)
(* status this server set (0: none), whether it ended the response, and    *)
(* where the request was proxied to with which url; raised: an exception   *)
(* left the function; errorUrl: the url in the message logged by the catch  *)
(* block of requestHandler (empty: nothing logged).                        *)

Outcome(calls, status, ended, via, port, fwd) ==
    [calls |-> calls, status |-> status, ended |-> ended,
     via |-> via, port |-> port, fwd |-> fwd,
     raised |-> FALSE, errorUrl |-> <<>>]

\* reverseProxy.handleRequest
reverseProxy_handleRequest(url, port) ==
    Outcome(<<"reverseProxy.handleRequest", "proxy.web">>, 0, FALSE,
            "reverseProxy", port, regexReplace(url))

\* jupyter.handleRequest without the check of jupyterServer
jupyter_handleRequest_NoCheck(url, js) ==
    Outcome(<<"jupyter.handleRequest", "proxy.web">>, 0, FALSE, "jupyter", 0, url)

\* jupyter.handleRequest
jupyter_handleRequest(url, js) ==
    IF js = "null"
    THEN Outcome(<<"jupyter.handleRequest">>, 500, TRUE, "none", 0, <<>>)
    ELSE Outcome(<<"jupyter.handleRequest", "proxy.web">>, 0, FALSE,
                 "jupyter", 0, url)

\* jupyter.handleSocket without the check of jupyterServer
jupyter_handleSocket_NoCheck(url, js) ==
    Outcome(<<"jupyter.handleSocket", "proxy.ws">>, 0, FALSE, "jupyter", 0, url)

\* jupyter.handleSocket
jupyter_handleSocket(url, js) ==
    IF js = "null"
    THEN Outcome(<<"jupyter.handleSocket">>, 0, FALSE, "none", 0, <<>>)
    ELSE Outcome(<<"jupyter.handleSocket", "proxy.ws">>, 0, FALSE,
                 "jupyter", 0, url)

Prepend(name, o) == [o EXCEPT !.calls = <<name>> \o o.calls]

\* handleRequest that forwards every path to Jupyter
handleRequest_NoNotFound(url, requestPath, js) ==
    Prepend("handleRequest", jupyter_handleRequest(url, js))

\* server.ts handleRequest: the default handler
handleRequest(url, requestPath, js) ==
    IF \E p \in JupyterPrefixes : indexOf(requestPath, p) = 0
    THEN Prepend("handleRequest", jupyter_handleRequest(url, js))
    ELSE Outcome(<<"handleRequest">>, 404, TRUE, "none", 0, <<>>)

\* uncheckedRequestHandler that tests the port of the path before the
\* bridges and the socket.io prefix
uncheckedRequestHandler_PortFirst(url, handlers, port, js) ==
    LET urlpath == pathname(url)
        proxyPort == getRequestPort(urlpath)
    IN  Prepend("logRequest",
          IF proxyPort # 0 /\ proxyPort # port
          THEN reverseProxy_handleRequest(url, proxyPort)
          ELSE IF \E h \in 1..Len(handlers) : isPathProxied(handlers[h], urlpath)
          THEN Outcome(<<>>, 0, FALSE, "none", 0, <<>>)
          ELSE IF isSocketIoPath(urlpath)
          THEN Outcome(<<>>, 0, FALSE, "none", 0, <<>>)
          ELSE handleRequest(url, urlpath, js))

\* uncheckedRequestHandler without the comparison with the listening port
uncheckedRequestHandler_NoGuard(url, handlers, port, js) ==
    LET urlpath == pathname(url)
        proxyPort == getRequestPort(urlpath)
    IN  Prepend("logRequest",
          IF \E h \in 1..Len(handlers) : isPathProxied(handlers[h], urlpath)
          THEN Outcome(<<>>, 0, FALSE, "none", 0, <<>>)
          ELSE IF isSocketIoPath(urlpath)
          THEN Outcome(<<>>, 0, FALSE, "none", 0, <<>>)
          ELSE IF proxyPort # 0
          THEN reverseProxy_handleRequest(url, proxyPort)
          ELSE handleRequest(url, urlpath, js))

\* server.ts uncheckedRequestHandler
uncheckedRequestHandler(url, handlers, port, js) ==
    LET urlpath == pathname(url)
        proxyPort == getRequestPort(urlpath)
    IN  Prepend("logRequest",
          IF \E h \in 1..Len(handlers) : isPathProxied(handlers[h], urlpath)
          THEN Outcome(<<>>, 0, FALSE, "none", 0, <<>>)
          ELSE IF isSocketIoPath(urlpath)
          THEN Outcome(<<>>, 0, FALSE, "none", 0, <<>>)
          ELSE IF proxyPort # 0 /\ proxyPort # port
          THEN reverseProxy_handleRequest(url, proxyPort)
          ELSE handleRequest(url, urlpath, js))

\* the callees of the dispatch that are libraries outside the repository
\* and may raise: logging.logRequest and the web method of the proxies
Faults == {"logRequest", "proxy.web"}

\* the position of the first call of o that raises under fault (0: none)
FirstRaise(o, fault) ==
    IF \E i \in 1..Len(o.calls) : o.calls[i] = fault
    THEN CHOOSE i \in 1..Len(o.calls) :
            /\ o.calls[i] = fault
            /\ \A j \in 1..(i - 1) : o.calls[j] # fault
    ELSE 0

\* uncheckedRequestHandler when the callee named by fault raises: the
\* statements after the raising call are not executed and the exception
\* leaves the function, none of whose statements is in a try block
raisedAt(o, fault) ==
    LET k == FirstRaise(o, fault)
    IN  IF k = 0 THEN o
        ELSE [Outcome(SubSeq(o.calls, 1, k), 0, FALSE, "none", 0, <<>>)
                 EXCEPT !.raised = TRUE]

\* requestHandler without the try block
requestHandler_NoCatch(url, handlers, port, js, fault) ==
    raisedAt(uncheckedRequestHandler(url, handlers, port, js), fault)

\* server.ts requestHandler: the catch block logs the url and the exception
requestHandler(url, handlers, port, js, fault) ==
    LET o == raisedAt(uncheckedRequestHandler(url, handlers, port, js), fault)
    IN  IF o.raised
        THEN [o EXCEPT !.raised = FALSE, !.errorUrl = url]
        ELSE o

\* the response header that responseHandler looks for
AllowOrigin == "access-control-allow-origin"

\* jupyter.ts responseHandler, the listener of the proxy's 'proxyRes' event:
\* it edits the headers of the backend's response before the proxy copies
\* status and headers to the client
responseHandler(proxyResponse) ==
    IF AllowOrigin \in DOMAIN proxyResponse.headers
    THEN [proxyResponse EXCEPT
             !.headers = [n \in (DOMAIN proxyResponse.headers) \ {AllowOrigin}
                             |-> proxyResponse.headers[n]]]
    ELSE proxyResponse

\* server.ts socketHandler, the 'upgrade' listener
socketHandler(url, handlers, port, js) ==
    jupyter_handleSocket(url, js)

---------------------------------------------------------------------------
(* Inputs *)

Digits == {"0", "8"}

RECURSIVE SeqsUpTo(_, _)
SeqsUpTo(S, n) ==
    IF n = 0 THEN { <<>> }
    ELSE LET shorter == SeqsUpTo(S, n - 1)
         IN  shorter \cup { Append(s, c) : s \in shorter, c \in S }

DigitStrings == SeqsUpTo(Digits, MaxDigits)

UrlHeads ==
    { <<>>, TtyPath, <<"/", "a">>, <<"/", "s", "o", "c", "k", "e", "t", ".", "i", "o">> }
        \cup JupyterPrefixes

UrlMarkers == { <<>>, ProxyMarker }

UrlTails == { <<>>, <<"/">>, <<"/", "x">>, <<"x">>, <<"?", "q">> }

\* the request urls of the model: origin-form targets, which start with '/'
Urls ==
    LET all == { h \o m \o d \o t :
                   h \in UrlHeads, m \in UrlMarkers, d \in DigitStrings, t \in UrlTails }
    IN  { u \in all : u # <<>> /\ u[1] = "/" }

Ports == {8, 80}

\* ptyLast: the event (ev), the producer calls it made (pause, resume), the
\* unackedCount and the flow state it found (before, paused), and for a
\* client 'data' event what was done with the payload (payload, wrote,
\* resized, raised)
PtyEvent(ev, pause, resume, before) ==
    [ev |-> ev, pause |-> pause, resume |-> resume, before |-> before,
     paused |-> ptyPaused, payload |-> "none", wrote |-> FALSE, resized |-> FALSE, raised |-> FALSE]

NoPtyEvent == PtyEvent("none", FALSE, FALSE, 0)

\* the responses of the backend: a status and headers keyed by lower-case
\* name, as node presents them
HeaderValues(n) ==
    IF n = AllowOrigin THEN {"*", "https://example.org"} ELSE {"text/html"}

BackendHeaders ==
    UNION { { h \in [D -> {"*", "https://example.org", "text/html"}] :
                \A n \in D : h[n] \in HeaderValues(n) } :
            D \in SUBSET {AllowOrigin, "content-type"} }

BackendResponses == [status : {200, 404}, headers : BackendHeaders]

\* no response yet: status 0 stands for none
NoBackendResponse == [status |-> 0, headers |-> [n \in {} |-> "*"]]

NoResponse == [backend |-> NoBackendResponse, client |-> NoBackendResponse]

\* kLast: the event (ev) and the one before it (prev), the WebSocket it is
\* about (ws) and the code of its error (code), the session as the listener
\* found it (conn, stored), and what the listener did: called send (sent),
\* logged at error level (log), raised an exception (raised), emitted to the
\* client (emit, url)
KernelEvent(ev, ws) ==
    [ev |-> ev, prev |-> kLast.ev, ws |-> ws, code |-> "none",
     conn |-> kConnected, stored |-> kWebSocket,
     sent |-> FALSE, log |-> "none", raised |-> FALSE,
     emit |-> "none", url |-> 0]

NoKernelEvent ==
    [ev |-> "none", prev |-> "none", ws |-> 0, code |-> "none",
     conn |-> TRUE, stored |-> 0,
     sent |-> FALSE, log |-> "none", raised |-> FALSE,
     emit |-> "none", url |-> 0]

\* last: what was asked (kind, url), the supervisor state it met (js, probe),
\* the callee that raised (fault) and the Outcome
NoRequest ==
    [kind |-> "none", url |-> <<>>, js |-> "null", probe |-> "pending",
     fault |-> "none"]
        @@ Outcome(<<>>, 0, FALSE, "none", 0, <<>>)

---------------------------------------------------------------------------
(* Initial state: after server.run(settings) has returned.  jupyter.init   *)
(* has spawned the child and started the readiness probe; the terminal     *)
(* bridge is registered when settings.terminal is set.  The router keeps   *)
(* no state between requests, so one behaviour sends one url, any number   *)
(* of times, as a request or as an upgrade.                                *)

\* jupyter.ts after init(): createJupyterServer has returned
InitSupervisor ==
    /\ jupyterServer = "null"
    /\ probe = "pending"
    /\ childProcess = "running"
    /\ killCalls = 0
    /\ closeResult = "none"
    /\ log = "none"
    /\ last = NoRequest

\* a Session of socketio_to_pty.ts after its constructor
InitSession ==
    /\ unackedCount = 0
    /\ emitted = 0
    /\ ptyPaused = FALSE
    /\ ptyLast = NoPtyEvent
    /\ connected = TRUE
    /\ ptyProcess = "running"
    /\ ptyKills = 0
    /\ ptyKilledDead = FALSE

\* a Session of sockets.ts after socketHandler has run for a connection
InitKernelSession ==
    /\ kConnected = TRUE
    /\ kUrl = 0
    /\ kWebSocket = 0
    /\ wsState = [i \in 1..MaxSockets |-> "none"]
    /\ wsCount = 0
    /\ kLast = NoKernelEvent
    /\ fromUpstream = <<>>
    /\ toClient = <<>>
    /\ fromClient = <<>>
    /\ toUpstream = <<>>

\* the libraries called by the dispatch do not raise
Init ==
    /\ socketIoHandlers \in { <<>>, <<TtyPath>> }
    /\ localPort \in Ports
    /\ requestUrl \in Urls
    /\ process = "running"
    /\ faultable = {}
    /\ response = NoResponse
    /\ InitSupervisor
    /\ InitSession
    /\ InitKernelSession
    /\ relayCap = 0

---------------------------------------------------------------------------
(* The http server *)

\* a 'request' event of the http server
\* an exception that leaves the listener is an uncaught exception of the
\* process: errorHandler of app.ts logs it and calls process.exit(1)
Request ==
    /\ process = "running"
    /\ \E fault \in faultable \cup {"none"} :
         last' = [kind |-> "request", url |-> requestUrl, js |-> jupyterServer,
                  probe |-> probe, fault |-> fault]
                   @@ requestHandler(requestUrl, socketIoHandlers, localPort,
                                     jupyterServer, fault)
    /\ process' = IF last'.raised THEN "exited" ELSE process
    /\ response' = NoResponse
    /\ UNCHANGED <<socketIoHandlers, localPort, jupyterServer, probe,
                   childProcess, killCalls, closeResult, log, requestUrl>>
    /\ UNCHANGED <<faultable, ptyVars, kernelVars, relayVars>>

\* the 'proxyRes' event of the supervisor's proxy for the request it
\* forwarded last: responseHandler runs, then the proxy writes status and
\* headers to the client
ProxyRes ==
    /\ process = "running"
    /\ last.kind = "request"
    /\ last.via = "jupyter"
    /\ response = NoResponse
    /\ \E proxyResponse \in BackendResponses :
         response' = [backend |-> proxyResponse,
                      client |-> responseHandler(proxyResponse)]
    /\ UNCHANGED <<serverVars, process, faultable, ptyVars, kernelVars, relayVars>>

\* an 'upgrade' event of the http server
Upgrade ==
    /\ process = "running"
    /\ last' = [kind |-> "upgrade", url |-> requestUrl, js |-> jupyterServer,
                 probe |-> probe, fault |-> "none"]
                  @@ socketHandler(requestUrl, socketIoHandlers, localPort, jupyterServer)
    /\ log' = IF jupyterServer = "null" THEN "Jupyter server is not running." ELSE log
    /\ UNCHANGED <<socketIoHandlers, localPort, jupyterServer, probe,
                   childProcess, killCalls, closeResult, requestUrl>>
    /\ UNCHANGED <<process, ptyVars, httpVars, kernelVars, relayVars>>

---------------------------------------------------------------------------
(* The supervisor of the Jupyter process *)

\* the fulfilment callback of tcp.waitUntilUsedOnHost(...).then
ProbeResolved ==
    /\ probe = "pending"
    /\ probe' = "resolved"
    /\ jupyterServer' = "server"
    /\ UNCHANGED <<socketIoHandlers, localPort, childProcess, killCalls,
                   closeResult, log, requestUrl, last>>
    /\ UNCHANGED <<process, ptyVars, httpVars, kernelVars, relayVars>>

\* a rejection callback that registers the server all the same
ProbeRejected_SetsServer ==
    /\ probe = "pending"
    /\ probe' = "rejected"
    /\ log' = "Failed to start Jupyter server."
    /\ jupyterServer' = "server"
    /\ UNCHANGED <<socketIoHandlers, localPort, childProcess,
                   killCalls, closeResult, requestUrl, last>>
    /\ UNCHANGED <<process, ptyVars, httpVars, kernelVars, relayVars>>

\* the rejection callback of tcp.waitUntilUsedOnHost(...).then
ProbeRejected ==
    /\ probe = "pending"
    /\ probe' = "rejected"
    /\ log' = "Failed to start Jupyter server."
    /\ UNCHANGED <<socketIoHandlers, localPort, jupyterServer, childProcess,
                   killCalls, closeResult, requestUrl, last>>
    /\ UNCHANGED <<process, ptyVars, httpVars, kernelVars, relayVars>>

\* the 'exit' event of the child process
exitHandler ==
    /\ childProcess = "running"
    /\ childProcess' = "exited"
    /\ log' = "Jupyter process exited"
    /\ jupyterServer' = "null"
    /\ UNCHANGED <<socketIoHandlers, localPort, probe, killCalls,
                   closeResult, requestUrl, last>>
    /\ UNCHANGED <<process, ptyVars, httpVars, kernelVars, relayVars>>

\* jupyter.close(), called by server.stop() from the exit() handler of app.ts.
\* Reading jupyterServer.childProcess of a null jupyterServer raises a
\* TypeError before the try block is entered.
close ==
    /\ IF jupyterServer = "null"
       THEN /\ closeResult' = "raised"
            /\ UNCHANGED <<killCalls, jupyterServer>>
       ELSE /\ killCalls' = killCalls + 1
            /\ jupyterServer' = "null"
            /\ closeResult' = "returned"
    /\ UNCHANGED <<socketIoHandlers, localPort, probe, childProcess, log, requestUrl, last>>
    /\ UNCHANGED <<process, ptyVars, httpVars, kernelVars, relayVars>>

Next ==
    \/ Request
    \/ Upgrade
    \/ ProbeResolved
    \/ ProbeRejected
    \/ exitHandler
    \/ close

Spec == Init /\ [][Next]_vars

\* the urls of the server whose libraries may raise
HttpUrls ==
    { h \o <<"/">> : h \in UrlHeads \ { <<>> } }
        \cup { ProxyMarker \o d \o <<"/", "x">> : d \in { <<"8">>, <<"8", "0">> } }

\* a server with the terminal bridge registered whose logging and proxy
\* libraries may raise, and whose backend answers the forwarded requests
HttpInit ==
    /\ socketIoHandlers = <<TtyPath>>
    /\ localPort = 80
    /\ requestUrl \in HttpUrls
    /\ process = "running"
    /\ faultable = Faults
    /\ response = NoResponse
    /\ InitSupervisor
    /\ InitSession
    /\ InitKernelSession
    /\ relayCap = 0

HttpNext ==
    \/ Request
    \/ ProxyRes
    \/ Upgrade
    \/ ProbeResolved
    \/ ProbeRejected
    \/ exitHandler
    \/ close

HttpSpec == HttpInit /\ [][HttpNext]_vars

---------------------------------------------------------------------------
(* socketio_to_pty.ts: one terminal Session and its flow control *)

Max(a, b) == IF a >= b THEN a ELSE b

\* a pause test that already fires at the high-water mark
pauseNeeded_AtHighWater(count) == count >= UNACKED_HIGH_WATER

\* a pause test that fires one chunk late
pauseNeeded_OneLate(count) == count > UNACKED_HIGH_WATER + 1

\* the test of pty.onData that pauses the producer
pauseNeeded(count) == count > UNACKED_HIGH_WATER

\* a resume test that compares with zero
resumeNeeded_BelowZero(count) == count < 0

\* the test of the acknowledgement callback that resumes the producer
resumeNeeded(count) == count < UNACKED_LOW_WATER

\* an acknowledgement callback that decrements without the clamp at zero
ackedCount_NoClamp(count) == count - 1

\* this.unackedCount = Math.max(0, --this.unackedCount)
ackedCount(count) == Max(0, count - 1)

\* pty.onData: one chunk of output of the terminal process; the chunk is
\* emitted to the socket whether or not the client is still connected
onData ==
    /\ process = "running"
    /\ ptyProcess = "running"
    /\ emitted < MaxChunks
    /\ emitted' = emitted + 1
    /\ unackedCount' = unackedCount + 1
    /\ ptyPaused' = IF pauseNeeded(unackedCount') THEN TRUE ELSE ptyPaused
    /\ ptyLast' = PtyEvent("data", pauseNeeded(unackedCount'), FALSE, unackedCount)
    /\ UNCHANGED <<connected, ptyProcess, ptyKills, ptyKilledDead, process>>
    /\ UNCHANGED <<serverVars, httpVars, kernelVars, relayVars>>

\* the acknowledgement callback given to socket.emit('data', ...); the
\* client may acknowledge late, never, or more often than chunks were sent
onAck ==
    /\ process = "running"
    /\ connected
    /\ emitted > 0
    /\ unackedCount' = ackedCount(unackedCount)
    /\ ptyPaused' = IF resumeNeeded(unackedCount') THEN FALSE ELSE ptyPaused
    /\ ptyLast' = PtyEvent("ack", FALSE, resumeNeeded(unackedCount'), unackedCount)
    /\ UNCHANGED <<emitted, connected, ptyProcess, ptyKills, ptyKilledDead, process>>
    /\ UNCHANGED <<serverVars, httpVars, kernelVars, relayVars>>

\* what JSON.parse(event.data) yields: a SyntaxError ("invalid"), the value
\* null, or an object whose optional fields data, cols and rows are falsy
\* ("", 0, absent) or truthy
Payloads ==
    { [json |-> "invalid", data |-> FALSE, cols |-> FALSE, rows |-> FALSE],
      [json |-> "null", data |-> FALSE, cols |-> FALSE, rows |-> FALSE] }
    \cup [json : {"object"}, data : BOOLEAN, cols : BOOLEAN, rows : BOOLEAN]

\* the 'data' listener of the socket: JSON.parse and the reads of the
\* fields of its result are not inside a try block
dataListener(payload) ==
    IF payload.json = "invalid" \/ payload.json = "null"
    THEN [PtyEvent("input", FALSE, FALSE, 0) EXCEPT
             !.payload = payload.json, !.raised = TRUE]
    ELSE [PtyEvent("input", FALSE, FALSE, 0) EXCEPT
             !.payload = payload.json,
             !.wrote = payload.data,
             !.resized = payload.cols /\ payload.rows]

\* a 'data' event of the client.  An exception that leaves the listener is
\* an uncaught exception of the process: errorHandler of app.ts logs it and
\* calls process.exit(1).
onClientData ==
    /\ process = "running"
    /\ connected
    /\ \E payload \in Payloads :
         /\ ptyLast' = [dataListener(payload) EXCEPT !.before = unackedCount]
         /\ process' = IF ptyLast'.raised THEN "exited" ELSE process
    /\ UNCHANGED <<unackedCount, emitted, ptyPaused, connected, ptyProcess,
                   ptyKills, ptyKilledDead>>
    /\ UNCHANGED <<serverVars, httpVars, kernelVars, relayVars>>

\* Session.close(): socket.disconnect(true), which does nothing on a
\* disconnected socket, then pty.kill()
sessionClose(kills, dead, pty) ==
    [kills |-> kills + 1, dead |-> dead \/ pty = "exited"]

\* the 'disconnect' event of the socket, raised by the client going away
onDisconnect ==
    /\ process = "running"
    /\ connected
    /\ connected' = FALSE
    /\ LET c == sessionClose(ptyKills, ptyKilledDead, ptyProcess)
       IN  /\ ptyKills' = c.kills
           /\ ptyKilledDead' = c.dead
    /\ ptyLast' = PtyEvent("disconnect", FALSE, FALSE, unackedCount)
    /\ UNCHANGED <<unackedCount, emitted, ptyPaused, ptyProcess, process>>
    /\ UNCHANGED <<serverVars, httpVars, kernelVars, relayVars>>

\* pty.onExit: emits 'exit' and calls socket.disconnect(true); on a
\* connected socket this raises 'disconnect', whose listener runs
\* Session.close()
onExit ==
    /\ process = "running"
    /\ ptyProcess = "running"
    /\ ptyProcess' = "exited"
    /\ connected' = FALSE
    /\ IF connected
       THEN LET c == sessionClose(ptyKills, ptyKilledDead, ptyProcess')
            IN  /\ ptyKills' = c.kills
                /\ ptyKilledDead' = c.dead
       ELSE UNCHANGED <<ptyKills, ptyKilledDead>>
    /\ ptyLast' = PtyEvent("exit", FALSE, FALSE, unackedCount)
    /\ UNCHANGED <<unackedCount, emitted, ptyPaused, process>>
    /\ UNCHANGED <<serverVars, httpVars, kernelVars, relayVars>>

\* one terminal session of a server that has the terminal bridge registered
PtyInit ==
    /\ socketIoHandlers = <<TtyPath>>
    /\ localPort = 80
    /\ requestUrl = TtyPath \o <<"/">>
    /\ process = "running"
    /\ faultable = {}
    /\ response = NoResponse
    /\ InitSupervisor
    /\ InitSession
    /\ InitKernelSession
    /\ relayCap = 0

PtyNext ==
    \/ onData
    \/ onAck
    \/ onClientData
    \/ onDisconnect
    \/ onExit

PtySpec == PtyInit /\ [][PtyNext]_vars

\* the client keeps acknowledging: the acknowledgement callback is run
\* again and again for as long as the socket is connected
PtyLiveSpec == PtyInit /\ [][PtyNext]_vars /\ WF_vars(onAck)

\* pty.onData of a producer that delivers no chunk between pause() and
\* resume()
onDataFlowing ==
    /\ ~ptyPaused
    /\ onData

PtyHeldNext ==
    \/ onDataFlowing
    \/ onAck
    \/ onClientData
    \/ onDisconnect
    \/ onExit

\* a terminal session whose producer holds its output while paused
PtyHeldSpec == PtyInit /\ [][PtyHeldNext]_vars

---------------------------------------------------------------------------
(* sockets.ts: one Session of the kernel bridge and the WebSockets it      *)
(* creates.  A WebSocket is connecting after its construction, open after  *)
(* its 'open' event, closing once close() was called on it or it failed    *)
(* (its 'close' event is still to come), closed after its 'close' event.   *)

\* ws.close(): starts the closing of a connecting or open WebSocket
wsCloseCall(sockets, ws) ==
    [sockets EXCEPT ![ws] = IF @ \in {"connecting", "open"} THEN "closing" ELSE @]

\* closeWebSocket(session)
closeWebSocket(stored, sockets) ==
    IF stored # 0
    THEN [webSocket |-> 0, sockets |-> wsCloseCall(sockets, stored)]
    ELSE [webSocket |-> stored, sockets |-> sockets]

\* session.socket.disconnect(true): nothing on a disconnected socket; on a
\* connected one the 'disconnect' event is raised and its listener calls
\* closeWebSocket(session)
forceDisconnect(conn, stored, sockets) ==
    IF conn
    THEN [connected |-> FALSE] @@ closeWebSocket(stored, sockets)
    ELSE [connected |-> conn, webSocket |-> stored, sockets |-> sockets]

\* the 'start' messages of the client: with a url a WebSocket can be made
\* for, with a url that makes createWebSocket raise, or with no message
StartMessages == {"url", "badUrl", "noMessage"}

\* the 'start' listener.  message.url is read for the debug line before
\* the try block is entered; session.url is assigned before createWebSocket
\* is called; a second start stores the new WebSocket over the stored one.
kStart ==
    /\ process = "running"
    /\ kConnected
    /\ \E message \in StartMessages :
         \/ /\ message = "url"
            /\ wsCount < MaxSockets
            /\ wsCount' = wsCount + 1
            /\ wsState' = [wsState EXCEPT ![wsCount'] = "connecting"]
            /\ kUrl' = wsCount'
            /\ kWebSocket' = wsCount'
            /\ kLast' = KernelEvent("start", wsCount')
            /\ UNCHANGED <<kConnected, process>>
         \/ /\ message = "badUrl"
            /\ LET d == forceDisconnect(kConnected, kWebSocket, wsState)
               IN  /\ kConnected' = d.connected
                   /\ kWebSocket' = d.webSocket
                   /\ wsState' = d.sockets
            /\ kUrl' = -1
            /\ kLast' = [KernelEvent("start", 0) EXCEPT
                            !.log = "Unable to create WebSocket connection"]
            /\ UNCHANGED <<wsCount, process>>
         \/ /\ message = "noMessage"
            /\ kLast' = [KernelEvent("start", 0) EXCEPT !.raised = TRUE]
            /\ process' = "exited"
            /\ UNCHANGED <<kConnected, kUrl, kWebSocket, wsState, wsCount>>
    /\ UNCHANGED <<serverVars, ptyVars, httpVars, relayVars>>

\* the 'stop' listener
kStop ==
    /\ process = "running"
    /\ kConnected
    /\ LET c == closeWebSocket(kWebSocket, wsState)
       IN  /\ kWebSocket' = c.webSocket
           /\ wsState' = c.sockets
    /\ kLast' = KernelEvent("stop", kWebSocket)
    /\ UNCHANGED <<kConnected, kUrl, wsCount, process>>
    /\ UNCHANGED <<serverVars, ptyVars, httpVars, relayVars>>

\* a 'data' listener that sends without looking at session.webSocket
dataHandler_NoCheck(stored) ==
    [sent |-> stored # 0, log |-> "none", raised |-> stored = 0]

\* the 'data' listener
dataHandler(stored) ==
    IF stored # 0
    THEN [sent |-> TRUE, log |-> "none", raised |-> FALSE]
    ELSE [sent |-> FALSE, log |-> "Unable to send message; WebSocket is not open",
          raised |-> FALSE]

\* the frames of a WebSocket: a Buffer (binary) or a string, with a body
Frames == { [binary |-> TRUE, body |-> "a"], [binary |-> FALSE, body |-> "b"] }

\* the 'data' messages of the client: a Buffer, whose bytes are under data
\* here, or an object {channel, data}
ClientMessages == { [buffer |-> TRUE, data |-> "a"], [buffer |-> FALSE, data |-> "b"] }

\* the argument the 'data' listener gives to webSocket.send: the message
\* itself when it is a Buffer, else message.data
sendArgument(message) ==
    IF message.buffer
    THEN [binary |-> TRUE, body |-> message.data]
    ELSE [binary |-> FALSE, body |-> message.data]

\* a 'data' message of the client
kData ==
    /\ process = "running"
    /\ kConnected
    /\ LET d == dataHandler(kWebSocket)
       IN  /\ kLast' = [KernelEvent("data", kWebSocket) EXCEPT
                           !.sent = d.sent, !.log = d.log, !.raised = d.raised]
           /\ process' = IF d.raised THEN "exited" ELSE process
           /\ \E message \in ClientMessages :
                IF kWebSocket # 0 /\ Len(fromClient) < relayCap
                THEN /\ fromClient' = Append(fromClient, message)
                     /\ toUpstream' = IF d.sent
                                      THEN Append(toUpstream, sendArgument(message))
                                      ELSE toUpstream
                ELSE UNCHANGED <<fromClient, toUpstream>>
    /\ UNCHANGED <<kConnected, kUrl, kWebSocket, wsState, wsCount>>
    /\ UNCHANGED <<relayCap, fromUpstream, toClient>>
    /\ UNCHANGED <<serverVars, ptyVars, httpVars>>

\* the 'disconnect' event of the socket, raised by the client going away
kDisconnect ==
    /\ process = "running"
    /\ kConnected
    /\ LET d == forceDisconnect(kConnected, kWebSocket, wsState)
       IN  /\ kConnected' = d.connected
           /\ kWebSocket' = d.webSocket
           /\ wsState' = d.sockets
    /\ kLast' = KernelEvent("disconnect", kWebSocket)
    /\ UNCHANGED <<kUrl, wsCount, process>>
    /\ UNCHANGED <<serverVars, ptyVars, httpVars, relayVars>>

\* the 'open' event of a WebSocket
wsOpen ==
    /\ process = "running"
    /\ \E ws \in 1..MaxSockets :
         /\ wsState[ws] = "connecting"
         /\ wsState' = [wsState EXCEPT ![ws] = "open"]
         /\ kWebSocket' = ws
         /\ kLast' = [KernelEvent("open", ws) EXCEPT !.emit = "open", !.url = kUrl]
    /\ UNCHANGED <<kConnected, kUrl, wsCount, process>>
    /\ UNCHANGED <<serverVars, ptyVars, httpVars, relayVars>>

\* a 'message' listener that emits every frame as text
messageListener_AsText(data) == [data |-> [data EXCEPT !.binary = FALSE]]

\* the 'message' listener of a WebSocket: the payload of the 'data' event
\* it emits to the client
messageListener(data) == [data |-> data]

\* the 'message' event of a WebSocket
wsMessage ==
    /\ process = "running"
    /\ \E ws \in 1..MaxSockets :
         /\ wsState[ws] = "open"
         /\ kLast' = [KernelEvent("message", ws) EXCEPT !.emit = "data"]
    /\ \E data \in Frames :
         IF Len(fromUpstream) < relayCap
         THEN /\ fromUpstream' = Append(fromUpstream, data)
              /\ toClient' = Append(toClient, messageListener(data))
         ELSE UNCHANGED <<fromUpstream, toClient>>
    /\ UNCHANGED <<kConnected, kUrl, kWebSocket, wsState, wsCount, process>>
    /\ UNCHANGED <<relayCap, fromClient, toUpstream>>
    /\ UNCHANGED <<serverVars, ptyVars, httpVars>>

\* the codes of the errors of a WebSocket; a connection is refused only
\* while the WebSocket is connecting
ErrorCodes(state) ==
    IF state = "connecting" THEN {"ECONNREFUSED", "ECONNRESET"} ELSE {"ECONNRESET"}

\* the 'error' listener of a WebSocket
wsErrorListener(code, conn, stored, sockets) ==
    IF code = "ECONNREFUSED"
    THEN forceDisconnect(conn, stored, sockets)
    ELSE [connected |-> conn, webSocket |-> stored, sockets |-> sockets]

\* the 'error' event of a WebSocket that fails; the WebSocket emits its
\* 'close' event afterwards
wsError ==
    /\ process = "running"
    /\ \E ws \in 1..MaxSockets :
         /\ wsState[ws] \in {"connecting", "open"}
         /\ \E code \in ErrorCodes(wsState[ws]) :
              LET failed == [wsState EXCEPT ![ws] = "closing"]
                  e == wsErrorListener(code, kConnected, kWebSocket, failed)
              IN  /\ kConnected' = e.connected
                  /\ kWebSocket' = e.webSocket
                  /\ wsState' = e.sockets
                  /\ kLast' = [KernelEvent("error", ws) EXCEPT
                                  !.code = code, !.log = "WebSocket error"]
    /\ UNCHANGED <<kUrl, wsCount, process>>
    /\ UNCHANGED <<serverVars, ptyVars, httpVars, relayVars>>

\* the 'close' event of a WebSocket: of one that is closing, or of an open
\* one whose peer closes it
wsClose ==
    /\ process = "running"
    /\ \E ws \in 1..MaxSockets :
         /\ wsState[ws] \in {"open", "closing"}
         /\ wsState' = [wsState EXCEPT ![ws] = "closed"]
         /\ kWebSocket' = 0
         /\ kLast' = [KernelEvent("close", ws) EXCEPT !.emit = "close", !.url = kUrl]
    /\ UNCHANGED <<kConnected, kUrl, wsCount, process>>
    /\ UNCHANGED <<serverVars, ptyVars, httpVars, relayVars>>

\* one kernel session of a running server
KernelInit ==
    /\ socketIoHandlers = <<TtyPath>>
    /\ localPort = 80
    /\ requestUrl = SocketIoPrefix
    /\ process = "running"
    /\ faultable = {}
    /\ response = NoResponse
    /\ InitSupervisor
    /\ InitSession
    /\ InitKernelSession
    /\ relayCap = 0

KernelNext ==
    \/ kStart
    \/ kStop
    \/ kData
    \/ kDisconnect
    \/ wsOpen
    \/ wsMessage
    \/ wsError
    \/ wsClose

KernelSpec == KernelInit /\ [][KernelNext]_vars

\* a Session after n rounds of start, stop and the 'close' event of the
\* stopped WebSocket, with nothing relayed
SessionAfterRounds(n) ==
    /\ kConnected = TRUE
    /\ kUrl = n
    /\ kWebSocket = 0
    /\ wsState = [i \in 1..MaxSockets |-> IF i <= n THEN "closed" ELSE "none"]
    /\ wsCount = n
    /\ kLast = IF n = 0 THEN NoKernelEvent
               ELSE [NoKernelEvent EXCEPT !.ev = "close", !.prev = "stop", !.ws = n,
                                          !.emit = "close", !.url = n]
    /\ fromUpstream = <<>>
    /\ toClient = <<>>
    /\ fromClient = <<>>
    /\ toUpstream = <<>>

\* one kernel session that has two WebSockets left to create and whose
\* first MaxMsgs messages in each direction are recorded
RelayInit ==
    /\ socketIoHandlers = <<TtyPath>>
    /\ localPort = 80
    /\ requestUrl = SocketIoPrefix
    /\ process = "running"
    /\ faultable = {}
    /\ response = NoResponse
    /\ InitSupervisor
    /\ InitSession
    /\ SessionAfterRounds(MaxSockets - 2)
    /\ relayCap = MaxMsgs

RelaySpec == RelayInit /\ [][KernelNext]_vars

---------------------------------------------------------------------------
(* The supervisor, one kernel session and one terminal session live in the *)
(* same process.                                                           *)

\* a terminal Session that acknowledged its first chunks and was paused by
\* the last of the UNACKED_HIGH_WATER + 1 chunks that followed
SessionPaused ==
    /\ unackedCount = UNACKED_HIGH_WATER + 1
    /\ emitted = MaxChunks - 1
    /\ ptyPaused = TRUE
    /\ ptyLast = [NoPtyEvent EXCEPT !.ev = "data", !.pause = TRUE,
                                    !.before = UNACKED_HIGH_WATER]
    /\ connected = TRUE
    /\ ptyProcess = "running"
    /\ ptyKills = 0
    /\ ptyKilledDead = FALSE

\* a server in which a kernel session with one WebSocket left to create
\* and a paused terminal session are open
BridgesInit ==
    /\ socketIoHandlers = <<TtyPath>>
    /\ localPort = 80
    /\ requestUrl = SocketIoPrefix
    /\ process = "running"
    /\ faultable = {}
    /\ response = NoResponse
    /\ InitSupervisor
    /\ SessionPaused
    /\ SessionAfterRounds(MaxSockets - 1)
    /\ relayCap = 0

BridgesNext ==
    \/ kStart
    \/ kStop
    \/ kData
    \/ kDisconnect
    \/ wsOpen
    \/ wsMessage
    \/ wsError
    \/ wsClose
    \/ onData
    \/ onAck
    \/ onClientData
    \/ onDisconnect
    \/ onExit
    \/ ProbeResolved
    \/ ProbeRejected
    \/ exitHandler
    \/ close

BridgesSpec == BridgesInit /\ [][BridgesNext]_vars

---------------------------------------------------------------------------
(* Properties of the router *)

HasCall(name) == \E i \in 1..Len(last.calls) : last.calls[i] = name

\* the handlers the router dispatched the last request to, in call order
Dispatched ==
    SelectSeq(last.calls,
              LAMBDA c : c \in {"reverseProxy.handleRequest", "handleRequest",
                                "jupyter.handleSocket"})

ClaimedByBridge ==
    \E h \in 1..Len(socketIoHandlers) :
        isPathProxied(socketIoHandlers[h], pathname(last.url))

ClaimedBySocketIo == isSocketIoPath(pathname(last.url))

\* C1: every request gets exactly one dispatch outcome, the first that
\* applies of: a registered bridge owns the path (no action), the path is
\* under /socket.io/ (no action), the path names a port other than the
\* listening one (reverse proxy), the default handler.
C1_DispatchOrder ==
    last.kind = "request" =>
        LET port == getRequestPort(pathname(last.url))
        IN  /\ Len(Dispatched) <= 1
            /\ last.calls[1] = "logRequest"
            /\ IF ClaimedByBridge THEN last.calls = <<"logRequest">>
               ELSE IF ClaimedBySocketIo THEN last.calls = <<"logRequest">>
               ELSE IF port # 0 /\ port # localPort
               THEN Dispatched = <<"reverseProxy.handleRequest">>
               ELSE Dispatched = <<"handleRequest">>

\* a request under the bridge prefix that also names a foreign port was
\* left to the bridge
C1_Witness ==
    /\ last.kind = "request"
    /\ ClaimedByBridge
    /\ getRequestPort(pathname(last.url)) \notin {0, localPort}
    /\ last.calls = <<"logRequest">>

\* C2: a request whose path names the listening port in /_proxy/<n>, with
\* or without leading zeros, is never given to the reverse proxy; when it
\* reaches the port rule it is given to the default handler.
C2_SelfLoopGuard ==
    (/\ last.kind = "request"
     /\ regexExec(pathname(last.url)).found
     /\ getRequestPort(pathname(last.url)) = localPort)
    => /\ ~HasCall("reverseProxy.handleRequest")
       /\ last.via # "reverseProxy"
       /\ (~ClaimedByBridge /\ ~ClaimedBySocketIo
             => Dispatched = <<"handleRequest">>)

\* the listening port written with a leading zero went to the default handler
C2_Witness ==
    /\ last.kind = "request"
    /\ regexExec(pathname(last.url)).found
    /\ regexExec(pathname(last.url)).digits[1] = "0"
    /\ getRequestPort(pathname(last.url)) = localPort
    /\ Dispatched = <<"handleRequest">>

NotClaimedNorReverseProxied ==
    /\ last.kind = "request"
    /\ ~ClaimedByBridge
    /\ ~ClaimedBySocketIo
    /\ ~HasCall("reverseProxy.handleRequest")

\* C3 as stated: every request that no bridge claims, that is not under
\* /socket.io/ and that the reverse proxy does not take is forwarded to the
\* supervisor's handleRequest, whatever its path.
C3_AlwaysSupervisor ==
    NotClaimedNorReverseProxied => HasCall("jupyter.handleRequest")

HasJupyterPrefix(path) ==
    \E p \in JupyterPrefixes :
        Len(path) >= Len(p) /\ SubSeq(path, 1, Len(p)) = p

\* C3 amended: such a request is forwarded to the supervisor's
\* handleRequest exactly when its path starts with /api, /nbextensions,
\* /files or /static; any other path is answered 404 with an empty body.
C3_SupervisorOrNotFound ==
    NotClaimedNorReverseProxied =>
        IF HasJupyterPrefix(pathname(last.url))
        THEN HasCall("jupyter.handleRequest")
        ELSE /\ ~HasCall("jupyter.handleRequest")
             /\ last.status = 404
             /\ last.ended
             /\ last.via = "none"

\* a request for a path outside the four prefixes was answered 404
C3_Witness ==
    /\ NotClaimedNorReverseProxied
    /\ ~HasJupyterPrefix(pathname(last.url))
    /\ last.status = 404

\* C4: the port of the reverse proxy is the number n of the /_proxy/<n>
\* segment, and the url handed to the proxy is the request url without the
\* characters of /_proxy/<n>, everything else kept (/_proxy/80/x -> /x).
C4_PortAndForwardedUrl ==
    (last.kind = "request" /\ last.via = "reverseProxy") =>
        LET m == regexExec(pathname(last.url))
            segment == Len(ProxyMarker) + Len(m.digits)
        IN  /\ m.found
            /\ last.port = Number(m.digits)
            /\ last.fwd = SubSeq(last.url, 1, m.index - 1)
                            \o SubSeq(last.url, m.index + segment, Len(last.url))

\* C5: an upgrade whose path belongs to a registered bridge is not given to
\* the supervisor's socket proxy, every other upgrade is, and no upgrade is
\* given to the reverse proxy.
C5_UpgradeReducedPath ==
    last.kind = "upgrade" =>
        /\ ~HasCall("reverseProxy.handleRequest")
        /\ IF ClaimedByBridge
           THEN ~HasCall("jupyter.handleSocket")
           ELSE HasCall("jupyter.handleSocket")

---------------------------------------------------------------------------
(* Properties of the supervisor *)

\* C6: handleRequest answers 500 with nothing written when jupyterServer is
\* not set and forwards to the proxy when it is set, and jupyterServer is
\* set only by the success callback of the readiness probe.
C6_ReadinessGate ==
    /\ [](HasCall("jupyter.handleRequest") =>
            IF last.js = "null"
            THEN /\ last.status = 500
                 /\ last.ended
                 /\ last.via = "none"
                 /\ ~HasCall("proxy.web")
            ELSE /\ HasCall("proxy.web")
                 /\ last.via = "jupyter"
                 /\ last.status = 0
                 /\ ~last.ended)
    /\ [][(jupyterServer = "null" /\ jupyterServer' = "server")
            => (probe = "pending" /\ probe' = "resolved")]_vars

\* a request reached the supervisor's handleRequest after the probe had
\* succeeded and was forwarded
C6_Witness ==
    /\ last.kind = "request"
    /\ HasCall("jupyter.handleRequest")
    /\ last.js = "server"
    /\ last.probe = "resolved"
    /\ last.via = "jupyter"

\* C7: once the child process has exited the supervisor is absent and stays
\* absent.
C7_ExitIsFinal == childProcess = "exited" => jupyterServer = "null"

\* C8: close() in any state returns without raising, leaves the supervisor
\* absent and has signalled the spawned child.
C8_CloseContract ==
    [][(closeResult' # closeResult \/ killCalls' # killCalls) =>
          /\ closeResult' = "returned"
          /\ jupyterServer' = "null"
          /\ killCalls' >= 1]_vars

\* C9: the readiness probe completes at most once and its result is final;
\* after a failure jupyterServer is never set, so handleRequest answers
\* 500, and the failure callback logs the error without touching the child.
C9_ProbeFailureIsFinal ==
    /\ [](probe = "rejected" => jupyterServer = "null")
    /\ []((last.probe = "rejected" /\ HasCall("jupyter.handleRequest"))
            => (last.status = 500 /\ ~HasCall("proxy.web")))
    /\ [][probe # "pending" => probe' = probe]_vars
    /\ [][(probe = "pending" /\ probe' = "rejected") =>
            /\ log' = "Failed to start Jupyter server."
            /\ childProcess' = childProcess
            /\ killCalls' = killCalls]_vars

\* after the probe had failed, with the child still running and never
\* signalled, a request reached the supervisor and was answered 500
C9_Witness ==
    /\ probe = "rejected"
    /\ childProcess = "running"
    /\ killCalls = 0
    /\ last.kind = "request"
    /\ last.probe = "rejected"
    /\ HasCall("jupyter.handleRequest")
    /\ last.status = 500

---------------------------------------------------------------------------
(* Properties of the terminal session *)

\* C10: an output chunk pauses the producer exactly when it raises
\* unackedCount above 20, and an acknowledgement resumes it exactly when it
\* leaves unackedCount below 2.
C10_PauseResumeThresholds ==
    /\ ptyLast.ev = "data" => (ptyLast.pause <=> unackedCount > 20)
    /\ ptyLast.ev = "data" => ~ptyLast.resume
    /\ ptyLast.ev = "ack" => (ptyLast.resume <=> unackedCount < 2)
    /\ ptyLast.ev = "ack" => ~ptyLast.pause

\* the 21st unacknowledged chunk paused the producer
C10_Witness ==
    /\ ptyLast.ev = "data"
    /\ ptyLast.pause
    /\ unackedCount = 21
    /\ emitted = 21

\* C11: unackedCount is never negative, whatever the chunks and the
\* acknowledgements, also when an acknowledgement arrives with no chunk
\* outstanding.
C11_UnackedNeverNegative == unackedCount >= 0

\* an acknowledgement arrived while unackedCount was 0 and left it at 0
C11_Witness ==
    /\ ptyLast.ev = "ack"
    /\ ptyLast.before = 0
    /\ unackedCount = 0

\* C13: a client 'data' event whose payload is not a valid JSON envelope
\* gets the session disconnected and leaves the process running.
C13_BadJsonDisconnects ==
    (ptyLast.ev = "input" /\ ptyLast.payload = "invalid")
        => (process = "running" /\ ~connected)

\* C16: the terminal process is killed at most once per session and never
\* after it has exited.
C16_KillOnceWhileRunning == ptyKills <= 1 /\ ~ptyKilledDead

\* C18: jupyter.handleSocket, when the supervisor is not ready, logs an
\* error and drops the upgrade -- the proxy is not invoked, nothing is
\* written to the socket, the supervisor state is unchanged -- and when
\* ready hands the upgrade to the proxy's ws method.
C18_HandleSocket ==
    /\ [](last.kind = "upgrade" =>
            IF last.js = "null"
            THEN /\ last.calls = <<"jupyter.handleSocket">>
                 /\ last.status = 0
                 /\ ~last.ended
                 /\ last.via = "none"
            ELSE /\ last.calls = <<"jupyter.handleSocket", "proxy.ws">>
                 /\ last.via = "jupyter"
                 /\ last.fwd = last.url)
    /\ [][(last' # last /\ last'.kind = "upgrade" /\ last'.js = "null")
            => /\ log' = "Jupyter server is not running."
               /\ jupyterServer' = jupyterServer
               /\ probe' = probe
               /\ childProcess' = childProcess
               /\ killCalls' = killCalls]_vars

\* an upgrade was dropped by a supervisor that is not ready
C18_Witness ==
    /\ last.kind = "upgrade"
    /\ last.js = "null"
    /\ log = "Jupyter server is not running."

\* the calls the dispatch of the last request makes when nothing raises
NormalCalls ==
    uncheckedRequestHandler(last.url, socketIoHandlers, localPort, last.js).calls

\* the callee named by last.fault was called, and so raised
FaultHit == \E i \in 1..Len(NormalCalls) : NormalCalls[i] = last.fault

C19_LoggingFailureHarmless ==
    last.kind = "request" =>
        /\ last.calls # <<>>
        /\ last.calls[1] = "logRequest"
        /\ (last.fault = "logRequest" => last.calls = NormalCalls)

\* what the client is to get: the backend's response less a header
\* access-control-allow-origin of value *
ExpectedClientResponse(proxyResponse) ==
    IF AllowOrigin \in DOMAIN proxyResponse.headers
       /\ proxyResponse.headers[AllowOrigin] = "*"
    THEN [proxyResponse EXCEPT
             !.headers = [n \in (DOMAIN proxyResponse.headers) \ {AllowOrigin}
                             |-> proxyResponse.headers[n]]]
    ELSE proxyResponse

\* C15: the response the client gets for a request forwarded to the ready
\* backend is the backend's response with only a header
\* access-control-allow-origin: * removed.
C15_OnlyWildcardOriginStripped ==
    response # NoResponse =>
        response.client = ExpectedClientResponse(response.backend)

\* C12: while no WebSocket is stored in the session, a 'data' message of
\* the client is dropped: nothing is sent, an error is logged, nothing is
\* raised and the client stays connected.
C12_DataDroppedWithoutSocket ==
    (kLast.ev = "data" /\ kLast.stored = 0)
        => /\ ~kLast.sent
           /\ kLast.log = "Unable to send message; WebSocket is not open"
           /\ ~kLast.raised
           /\ kConnected
           /\ kWebSocket = 0
           /\ process = "running"

\* the sequence start, stop, data
C12_Witness ==
    /\ kLast.ev = "data"
    /\ kLast.prev = "stop"
    /\ kLast.stored = 0
    /\ wsCount >= 1
    /\ ~kLast.sent

\* C17: once the client of a session has disconnected, none of the
\* WebSockets the session created is connecting or open.
C17_NoSocketOutlivesSession ==
    ~kConnected => \A ws \in 1..MaxSockets : wsState[ws] \notin {"connecting", "open"}

\* C20: a WebSocket error of code ECONNREFUSED leaves the client
\* disconnected and the stored WebSocket closed and cleared; any other
\* error leaves the client connected as before and the stored WebSocket
\* unchanged.
C20_RefusedDisconnects ==
    kLast.ev = "error" =>
        IF kLast.code = "ECONNREFUSED"
        THEN /\ ~kConnected
             /\ kWebSocket = 0
             /\ kLast.stored # 0 => wsState[kLast.stored] \in {"closing", "closed"}
        ELSE /\ kConnected = kLast.conn
             /\ kWebSocket = kLast.stored

\* C21: a 'start' message for which no WebSocket can be constructed is
\* caught: the error is logged, the client is disconnected, no exception
\* leaves the listener, and the WebSocket stored by an earlier start is
\* closed.
C21_StartFailureCaught ==
    (kLast.ev = "start" /\ kLast.ws = 0)
        => /\ ~kLast.raised
           /\ process = "running"
           /\ kLast.log = "Unable to create WebSocket connection"
           /\ ~kConnected
           /\ kWebSocket = 0
           /\ kLast.stored # 0 => wsState[kLast.stored] \in {"closing", "closed"}

\* C24: the 'open' or 'close' event of a WebSocket that is not the one
\* started last leaves the stored reference to the one started last in
\* place.
C24_StaleEventKeepsReference ==
    (/\ kLast.ev \in {"open", "close"}
     /\ kLast.ws # wsCount
     /\ kLast.stored = wsCount)
        => kWebSocket = wsCount

\* C25: the url of an 'open' or 'close' event emitted to the client is the
\* url of the 'start' message that created the WebSocket of the event.
C25_EventUrlOfItsStart ==
    kLast.emit \in {"open", "close"} => kLast.url = kLast.ws

\* C26: the flow control of a terminal session cannot deadlock: a paused
\* producer of a connected session has at least UNACKED_LOW_WATER chunks
\* unacknowledged, so it is never paused with nothing left to acknowledge;
\* the producer is paused only by a chunk that takes unackedCount above
\* UNACKED_HIGH_WATER; and while the client keeps acknowledging a paused
\* producer is resumed.
C26_NoBackpressureDeadlock ==
    /\ []((ptyPaused /\ connected) => unackedCount >= UNACKED_LOW_WATER)
    /\ [][(ptyPaused' /\ ~ptyPaused) => unackedCount' > UNACKED_HIGH_WATER]_vars
    /\ (ptyPaused ~> (~ptyPaused \/ ~connected \/ process = "exited"))

\* an acknowledgement resumed a producer that was paused
C26_Witness ==
    /\ ptyLast.ev = "ack"
    /\ ptyLast.paused
    /\ ptyLast.resume
    /\ ~ptyPaused
    /\ connected

\* C27: when a paused producer delivers no chunk until it is resumed,
\* unackedCount never exceeds UNACKED_HIGH_WATER + 1.
C27_UnackedBounded == unackedCount <= UNACKED_HIGH_WATER + 1

\* the producer was paused by the chunk that took unackedCount to 21
C27_Witness ==
    /\ ptyLast.ev = "data"
    /\ ptyLast.pause
    /\ ptyPaused
    /\ unackedCount = UNACKED_HIGH_WATER + 1

\* C23: the relay of a kernel session keeps content and order: the 'data'
\* events emitted to the client are the messages of the WebSockets, one
\* for one and in order, and the frames sent upstream are the payloads of
\* the client's 'data' messages that found a WebSocket stored, in order.
C23_RelayKeepsContentAndOrder ==
    /\ Len(toClient) = Len(fromUpstream)
    /\ \A i \in 1..Len(fromUpstream) : toClient[i] = [data |-> fromUpstream[i]]
    /\ Len(toUpstream) = Len(fromClient)
    /\ \A i \in 1..Len(fromClient) :
          /\ toUpstream[i].body = fromClient[i].data
          /\ toUpstream[i].binary = fromClient[i].buffer

\* two different messages were relayed in each direction
C23_Witness ==
    /\ Len(fromUpstream) = 2
    /\ fromUpstream[1].binary
    /\ fromUpstream[1] # fromUpstream[2]
    /\ Len(toClient) = 2
    /\ Len(fromClient) = 2
    /\ fromClient[1] # fromClient[2]
    /\ Len(toUpstream) = 2

\* the state of the kernel session, of the terminal session and of the
\* supervisor that C22 names
KernelSessionState == <<kConnected, kUrl, kWebSocket, wsState, wsCount>>

PtySessionState == <<unackedCount, ptyPaused, connected, ptyProcess>>

SupervisorState == <<jupyterServer, probe, childProcess, killCalls>>

\* C22: an event handled for the kernel session or for the terminal
\* session leaves the other session and the supervisor as they are, and
\* leaves running the process they all live in.
C22_SessionsIndependent ==
    [][/\ kernelVars' # kernelVars
          => /\ PtySessionState' = PtySessionState
             /\ SupervisorState' = SupervisorState
             /\ process' = process
       /\ ptyVars' # ptyVars
          => /\ KernelSessionState' = KernelSessionState
             /\ SupervisorState' = SupervisorState
             /\ process' = process]_vars

====
